---- MODULE Spec2Model ----
(***************************************************************************)
(* Participant audio lifecycle, QC review and T1 delivery of the           *)
(* personalized-audio-ad experiment.                                        *)
(*                                                                         *)
(* The record store (table `participants`), the blob store (bucket         *)
(* `ads-audio`) and the TTS provider are collaborators: every call to one  *)
(* of them either answers or fails, chosen nondeterministically.           *)
(***************************************************************************)
EXTENDS Integers, Sequences, FiniteSets, TLC

VARIABLES
    participants,   \* table `participants`: prolific_pid -> row (domain = ids with a row)
    responses,      \* table `responses_t1`: prolific_pid -> number of rows inserted
    storage,        \* bucket `ads-audio`: the set of paths that hold an object
    now,            \* the clock read by `new Date().toISOString()`
    run,            \* the invocations of the generation script: locals and position
    replace,        \* the replace-audio requests in flight
    page,           \* the T1 page visits: React state of T1Content
    replaced,       \* prolific_pid -> number of {ok: true} answers of replace-audio
    dashboard,      \* the last answer of GET /api/admin/qc/list
    T1_ITEMS,       \* the questionnaire configuration the T1 page imports
    rejected,       \* the last request a route has turned down with status 400
    http            \* the last request that reached the server, and the middleware's answer

vars == <<participants, responses, storage, now, run, replace, page, replaced, dashboard,
          T1_ITEMS, rejected, http>>

\* The tables and the bucket
stores == <<participants, responses, storage>>

-----------------------------------------------------------------------------
\* Bounds of the model

\* Stamps handed out by the clock: 1..MaxTime (0 models SQL NULL).
MaxTime == 2

\* Rows a single identifier may get in responses_t1.
MaxResponses == 2

\* Successful replace-audio requests per identifier after which no further one is started.
MaxReplaced == 2

\* Playback positions reported by the audio element: 0..MaxPlayTime seconds.
MaxPlayTime == 3

-----------------------------------------------------------------------------
\* Program constants

\* BATCH_SIZE of the script, scaled down from 50 so that the cap binds with
\* three participants.
BATCH_SIZE == 2

\* errorMsg.slice(0, 500)
ERROR_SLICE == 500

-----------------------------------------------------------------------------
\* Values

PIDs == {"P1", "P2", "low"}

\* searchParams.get(...) yields null (or '') when the parameter is absent;
\* both are falsy.
NoPid == ""

Conditions == {"low", "medium", "high"}

Runs == {1, 2}

ReplaceReqs == {1, 2}

Visits == {1}

NullTime == 0

NullPath == "<null>"

NullNotes == "<null>"

NullUrl == "<null>"

\* The JSON body of a response of GET /api/t1/get-audio (the fields the page reads)
Response(ok, found, status, url, error) ==
    [ok |-> ok, found |-> found, status |-> status, audio_url |-> url, error |-> error]

\* fetchAudio has received no response
NoData == Response(FALSE, "undefined", "<no response>", NullUrl, "")

NullError == [kind |-> "null", len |-> 0]

\* Messages of the errors thrown by generateAudio / uploadAudio:
\* `ElevenLabs API error: <status> - <body>` and `Supabase upload error: <msg>`;
\* the body is of any length.
TtsErrors == {[kind |-> "ElevenLabs API error", len |-> 40],
              [kind |-> "ElevenLabs API error", len |-> 620]}

UploadErrors == {[kind |-> "Supabase upload error", len |-> 35]}

Outcomes == {"ok", "fail"}

Min(a, b) == IF a < b THEN a ELSE b

\* String.prototype.slice(0, n) on a message
slice(msg, n) == [msg EXCEPT !.len = Min(msg.len, n)]

\* `${prolific_pid}.mp3`
audioPath(pid) == pid \o ".mp3"

LowPath == "low.mp3"

\* Column defaults of the audio and completion columns (section 3 and 4.1:
\* audio status starts as pending, everything else as NULL).
AudioDefaults ==
    [t1_completed_at    |-> NullTime,
     audio_status       |-> "pending",
     audio_path         |-> NullPath,
     audio_error        |-> NullError,
     audio_generated_at |-> NullTime]

\* Column defaults of the QC columns (add_qc_columns.sql)
QcDefaults ==
    [qc_status         |-> "pending",
     qc_checked_at     |-> NullTime,
     qc_notes          |-> NullNotes,
     qc_replaced_count |-> 0]

\* A row after an insert that gives only the T0 columns.
NewRow(cond, study, session, t) ==
    [condition       |-> cond,
     study_id_t0     |-> study,
     session_id_t0   |-> session,
     t0_completed_at |-> t] @@ AudioDefaults @@ QcDefaults

Exists(pid) == pid \in DOMAIN participants

\* UPDATE participants SET <fields> WHERE prolific_pid = pid
\* (no row matched: nothing changes, and no error is reported)
UpdateRow(pid, fields) ==
    IF Exists(pid)
    THEN [participants EXCEPT ![pid] =
            [f \in DOMAIN participants[pid] |->
                IF f \in DOMAIN fields THEN fields[f] ELSE participants[pid][f]]]
    ELSE participants

StudyIds == {"study1"}

SessionIds == {"sess1"}

\* qc_notes of a request: absent (null), empty, or a text
NotesIn == {NullNotes, "", "note"}

\* qc_notes || null
OrNull(notes) == IF notes = "" THEN NullNotes ELSE notes

\* T1_ITEMS.scales of config/t1_items.ts, scaled down to three scales of two,
\* one and one items (the file has five scales of 10, 7, 4, 3 and 4 items,
\* all of them active).
T1Config ==
    <<[scale_id |-> "relevance",
       items    |-> <<[item_id |-> "rel1", active |-> TRUE],
                      [item_id |-> "rel2", active |-> TRUE]>>],
      [scale_id |-> "intrusiveness",
       items    |-> <<[item_id |-> "int1", active |-> TRUE]>>],
      [scale_id |-> "attitude",
       items    |-> <<[item_id |-> "att1", active |-> TRUE]>>]>>

ItemIds == {"rel1", "rel2", "int1", "att1"}

\* The configuration with the `active` flags edited: A is the set of items left active.
WithActive(A) ==
    [k \in 1..Len(T1Config) |->
        [scale_id |-> T1Config[k].scale_id,
         items    |-> [j \in 1..Len(T1Config[k].items) |->
                         [item_id |-> T1Config[k].items[j].item_id,
                          active  |-> T1Config[k].items[j].item_id \in A]]]]

Configs == {WithActive(A) : A \in SUBSET ItemIds}

\* The values of the radio buttons [1, 2, 3, 4, 5, 6, 7], by their two ends
LikertValues == {1, 7}

\* Bodies of type AudioResponse that a server may send to the T1 page
AudioResponses ==
    {Response(ok, found, status, url, "") :
        ok \in BOOLEAN, found \in {"true", "false"},
        status \in {"pending", "qc_pending", "ready", "generated", "error"},
        url \in {NullUrl, "signed:low.mp3"}}

\* No request has been turned down.
NoRejection == [route |-> "", error |-> ""]

\* return NextResponse.json({ok: false, error}, {status: 400})
Reject(route, error) == rejected' = [route |-> route, error |-> error]

\* request.headers.get('authorization') of a request without that header
NoHeader == [scheme |-> "<null>", base64 |-> FALSE, credentials |-> <<>>]

\* No request has reached the server.
NoRequest == [pathname |-> <<>>, authorization |-> NoHeader, ADMIN_PASSWORD |-> "<undefined>",
              next |-> FALSE, status |-> 0, body |-> ""]

\* No answer of the QC list has been received.
NoList == [ok |-> FALSE, participants |-> <<>>, error |-> "<no response>"]

-----------------------------------------------------------------------------
\* Initial state

\* Locals of one invocation of the script before main() is entered.
RunIdle ==
    [pc            |-> "idle",
     lowFileExists |-> FALSE,
     participants  |-> <<>>,
     i             |-> 0,
     errorMsg      |-> NullError,
     error         |-> "null",
     lowUpdated    |-> 0,
     generated     |-> 0,
     errors        |-> 0]

ReplaceIdle == [pc |-> "idle", prolificPid |-> NoPid, qcNotes |-> NullNotes, currentCount |-> 0]

\* useState initial values of T1Content for a visit with ?PROLIFIC_PID=pid
\* and no response to fetchAudio's request yet.
Mounted(pid) ==
    [prolificPid |-> pid, step |-> "loading", errorMessage |-> "", audioUrl |-> NullUrl,
     data |-> NoData, currentScaleIndex |-> 0, answers |-> [i \in {} |-> 0],
     canContinueAudio |-> FALSE, submitData |-> "<no response>"]

\* The table as the experimenters hand it over: any subset of the identifiers
\* has a row, with the condition assigned to it and nothing generated yet.
InitialTables ==
    UNION {[D -> {NewRow(c, "study1", "sess1", 1) : c \in Conditions}] : D \in SUBSET PIDs}

Init ==
    /\ participants \in InitialTables
    /\ responses = [p \in PIDs |-> 0]
    /\ storage = {}
    /\ now = 1
    /\ run = [r \in Runs |-> RunIdle]
    /\ replace = [q \in ReplaceReqs |-> ReplaceIdle]
    /\ page = [v \in Visits |-> Mounted(NoPid)]
    /\ replaced = [p \in PIDs |-> 0]
    /\ dashboard = NoList
    /\ T1_ITEMS \in Configs
    /\ rejected = NoRejection
    /\ http = NoRequest

\* Time passes between any two steps.
Tick ==
    /\ now < MaxTime
    /\ now' = now + 1
    /\ UNCHANGED <<participants, responses, storage, run, replace, page, replaced, dashboard, T1_ITEMS, rejected, http>>

-----------------------------------------------------------------------------
\* POST /api/t0/submit

\* The upsert replaces the whole row: the columns it does not give go back
\* to their defaults.
T0Upsert_replace(pid, study, session) ==
    [q \in DOMAIN participants \cup {pid} |->
        IF q = pid THEN NewRow("low", study, session, now) ELSE participants[q]]

\* upsert({prolific_pid, study_id_t0, session_id_t0, condition: 'low',
\*         t0_completed_at}, {onConflict: 'prolific_pid'})
T0Upsert(pid, study, session) ==
    IF Exists(pid)
    THEN UpdateRow(pid, [study_id_t0     |-> study,
                         session_id_t0   |-> session,
                         condition       |-> "low",
                         t0_completed_at |-> now])
    ELSE [q \in DOMAIN participants \cup {pid} |->
            IF q = pid THEN NewRow("low", study, session, now) ELSE participants[q]]

\* The route accepts a body without t0_payload.
T0Response_noPayloadCheck(pid, payload, db) ==
    IF pid = NoPid
    THEN [status |-> 400, error |-> "Missing required field: prolific_pid"]
    ELSE IF db = "fail"
    THEN [status |-> 500, error |-> "Database error"]
    ELSE [status |-> 200, error |-> ""]

\* The status and the error of the response. payload: the body has a t0_payload
T0Response(pid, payload, db) ==
    IF pid = NoPid
    THEN [status |-> 400, error |-> "Missing required field: prolific_pid"]
    ELSE IF ~payload
    THEN [status |-> 400, error |-> "Missing required field: t0_payload"]
    ELSE IF db = "fail"
    THEN [status |-> 500, error |-> "Database error"]
    ELSE [status |-> 200, error |-> ""]

T0Submit(pid, study, session, payload, db) ==
    /\ IF T0Response(pid, payload, db).status = 400
       THEN /\ Reject("/api/t0/submit", T0Response(pid, payload, db).error)
            /\ UNCHANGED participants
       ELSE /\ participants' = IF T0Response(pid, payload, db).status = 200
                               THEN T0Upsert(pid, study, session)
                               ELSE participants
            /\ UNCHANGED rejected
    /\ UNCHANGED <<responses, storage, now, run, replace, page, replaced, dashboard, T1_ITEMS, http>>

-----------------------------------------------------------------------------
\* The generation script (npm run generate-audio)

SetRun(r, fields) ==
    run' = [run EXCEPT ![r] =
              [f \in DOMAIN run[r] |-> IF f \in DOMAIN fields THEN fields[f] ELSE run[r][f]]]

\* main(): entered afresh by every invocation
main_start(r) ==
    /\ run[r].pc \in {"idle", "done"}
    /\ run' = [run EXCEPT ![r] = [RunIdle EXCEPT !.pc = "low_list"]]
    /\ UNCHANGED <<participants, responses, storage, now, replace, page, replaced, dashboard, T1_ITEMS, rejected, http>>

\* storage.list('', {search: 'low.mp3'}); existingFile?.some(f => f.name === 'low.mp3')
\* The listing's error is not looked at: a failed listing gives data = null.
lowFileExists(list) == list = "ok" /\ LowPath \in storage

processLowCondition_list(r, list) ==
    /\ run[r].pc = "low_list"
    /\ SetRun(r, [lowFileExists |-> lowFileExists(list),
                  pc |-> IF lowFileExists(list) THEN "low_update" ELSE "low_generate"])
    /\ UNCHANGED <<participants, responses, storage, now, replace, page, replaced, dashboard, T1_ITEMS, rejected, http>>

\* The failure of the shared artifact ends the whole script (process.exit).
LowFailed_exit == [lowUpdated |-> 0, pc |-> "done"]

\* return 0 from the catch block; main() goes on to processMediumHighConditions
LowFailed == [lowUpdated |-> 0, pc |-> "mh_fetch"]

\* generateAudio(TEXTS.low)
processLowCondition_generate(r, tts) ==
    /\ run[r].pc = "low_generate"
    /\ SetRun(r, IF tts = "ok" THEN [pc |-> "low_upload"] ELSE LowFailed)
    /\ UNCHANGED <<participants, responses, storage, now, replace, page, replaced, dashboard, T1_ITEMS, rejected, http>>

\* uploadAudio('low.mp3', audioBuffer)
processLowCondition_upload(r, up) ==
    /\ run[r].pc = "low_upload"
    /\ storage' = IF up = "ok" THEN storage \cup {LowPath} ELSE storage
    /\ SetRun(r, IF up = "ok" THEN [pc |-> "low_update"] ELSE LowFailed)
    /\ UNCHANGED <<participants, responses, now, replace, page, replaced, dashboard, T1_ITEMS, rejected, http>>

\* .eq('condition', 'low').eq('audio_status', 'pending')
PendingLow == {p \in DOMAIN participants :
                 participants[p].condition = "low" /\ participants[p].audio_status = "pending"}

\* The update sets the status and the stamp but leaves audio_path as it was.
GeneratedFields_noPath(path) ==
    [audio_status       |-> "generated",
     audio_generated_at |-> now,
     audio_error        |-> NullError]

\* .update({audio_status: 'generated', audio_path, audio_generated_at, audio_error: null})
GeneratedFields(path) ==
    [audio_status       |-> "generated",
     audio_path         |-> path,
     audio_generated_at |-> now,
     audio_error        |-> NullError]

\* The update reaches a single row of the selection (as with .limit(1)).
LowBulkUpdate_one ==
    IF PendingLow = {}
    THEN participants
    ELSE UpdateRow(CHOOSE p \in PendingLow : TRUE, GeneratedFields(LowPath))

\* The bulk update of the low branch: one UPDATE statement over the rows selected.
LowBulkUpdate ==
    [p \in DOMAIN participants |->
        IF p \in PendingLow
        THEN [f \in DOMAIN participants[p] |->
                IF f \in DOMAIN GeneratedFields(LowPath)
                THEN GeneratedFields(LowPath)[f] ELSE participants[p][f]]
        ELSE participants[p]]

\* the `error` a record-store call hands back
DbError(db) == IF db = "ok" THEN "null" ELSE "record store error"

\* updated?.length || 0, or 0 when the update reports an error
lowCount(db) == IF db = "ok" THEN Cardinality(PendingLow) ELSE 0

processLowCondition_update(r, db) ==
    /\ run[r].pc = "low_update"
    /\ participants' = IF db = "ok" THEN LowBulkUpdate ELSE participants
    /\ SetRun(r, [error |-> DbError(db), lowUpdated |-> lowCount(db), pc |-> "mh_fetch"])
    /\ UNCHANGED <<responses, storage, now, replace, page, replaced, dashboard, T1_ITEMS, rejected, http>>

\* .in('condition', ['medium', 'high']).eq('audio_status', 'pending')
PendingMediumHigh == {p \in DOMAIN participants :
                        /\ participants[p].condition \in {"medium", "high"}
                        /\ participants[p].audio_status = "pending"}

\* .limit(BATCH_SIZE): the number of rows the select returns
FetchCount == Min(BATCH_SIZE, Cardinality(PendingMediumHigh))

\* .select('prolific_pid, condition') ... .limit(BATCH_SIZE), in any order
FetchResults ==
    {s \in [1..FetchCount -> PendingMediumHigh] :
        \A a, b \in 1..FetchCount : a # b => s[a] # s[b]}

Fetched(s) ==
    [k \in 1..Len(s) |-> [prolific_pid |-> s[k], condition |-> participants[s[k]].condition]]

\* return { generated, errors } and the summary printed by main()
processMediumHighConditions_fetch(r, db) ==
    /\ run[r].pc = "mh_fetch"
    /\ \/ /\ db = "fail"
          /\ SetRun(r, [error |-> DbError(db), generated |-> 0, errors |-> 0, pc |-> "done"])
       \/ /\ db = "ok"
          /\ \E s \in FetchResults :
                SetRun(r, IF Len(s) = 0
                          THEN [error |-> DbError(db), generated |-> 0, errors |-> 0,
                                pc |-> "done"]
                          ELSE [error |-> DbError(db), participants |-> Fetched(s), i |-> 1,
                                generated |-> 0, errors |-> 0, pc |-> "mh_generate"])
    /\ UNCHANGED <<participants, responses, storage, now, replace, page, replaced, dashboard, T1_ITEMS, rejected, http>>

\* p of the current iteration of `for (const p of participants)`
Current(r) == run[r].participants[run[r].i]

\* End of one iteration (after the 500 ms delay): the next element, or the
\* return of { generated, errors } to main(), which prints the summary.
NextIteration(r) ==
    IF run[r].i < Len(run[r].participants)
    THEN [i |-> run[r].i + 1, pc |-> "mh_generate", errorMsg |-> NullError]
    ELSE [pc |-> "done", errorMsg |-> NullError]

\* The generation for the next row is started without waiting for the
\* current one (as with participants.map(async ...) and Promise.all).
processMediumHighConditions_generate_parallel(r, tts) ==
    /\ run[r].pc = "mh_generate"
    /\ \/ /\ tts = "ok"
          /\ SetRun(r, IF run[r].i < Len(run[r].participants)
                        THEN [i |-> run[r].i + 1]
                        ELSE [pc |-> "mh_upload"])
       \/ /\ tts = "fail"
          /\ \E e \in TtsErrors : SetRun(r, [errorMsg |-> e, pc |-> "mh_error"])
    /\ UNCHANGED <<participants, responses, storage, now, replace, page, replaced, dashboard, T1_ITEMS, rejected, http>>

\* generateAudio(text): a throw is caught by the loop's catch block
processMediumHighConditions_generate(r, tts) ==
    /\ run[r].pc = "mh_generate"
    /\ \/ /\ tts = "ok"
          /\ SetRun(r, [pc |-> "mh_upload"])
       \/ /\ tts = "fail"
          /\ \E e \in TtsErrors : SetRun(r, [errorMsg |-> e, pc |-> "mh_error"])
    /\ UNCHANGED <<participants, responses, storage, now, replace, page, replaced, dashboard, T1_ITEMS, rejected, http>>

\* uploadAudio(audioPath, audioBuffer)
processMediumHighConditions_upload(r, up) ==
    /\ run[r].pc = "mh_upload"
    /\ \/ /\ up = "ok"
          /\ storage' = storage \cup {audioPath(Current(r).prolific_pid)}
          /\ SetRun(r, [pc |-> "mh_update"])
       \/ /\ up = "fail"
          /\ storage' = storage
          /\ \E e \in UploadErrors : SetRun(r, [errorMsg |-> e, pc |-> "mh_error"])
    /\ UNCHANGED <<participants, responses, now, replace, page, replaced, dashboard, T1_ITEMS, rejected, http>>

\* await supabase.from('participants').update({...}).eq('prolific_pid', ...)
\* The result is not looked at: an update that fails does not throw.
MarkGenerated(pid, db) ==
    IF db = "ok" THEN UpdateRow(pid, GeneratedFields(audioPath(pid))) ELSE participants

processMediumHighConditions_update(r, db) ==
    /\ run[r].pc = "mh_update"
    /\ participants' = MarkGenerated(Current(r).prolific_pid, db)
    /\ SetRun(r, [generated |-> run[r].generated + 1] @@ NextIteration(r))
    /\ UNCHANGED <<responses, storage, now, replace, page, replaced, dashboard, T1_ITEMS, rejected, http>>

\* The catch block stores the message as thrown, without slice(0, 500).
MarkError_noSlice(pid, msg, db) ==
    IF db = "ok"
    THEN UpdateRow(pid, [audio_status |-> "error", audio_error |-> msg])
    ELSE participants

\* catch (err): .update({audio_status: 'error', audio_error: errorMsg.slice(0, 500)})
MarkError(pid, msg, db) ==
    IF db = "ok"
    THEN UpdateRow(pid, [audio_status |-> "error", audio_error |-> slice(msg, ERROR_SLICE)])
    ELSE participants

\* The catch block rethrows after marking the row: the loop is left.
processMediumHighConditions_error_abort(r, db) ==
    /\ run[r].pc = "mh_error"
    /\ participants' = MarkError(Current(r).prolific_pid, run[r].errorMsg, db)
    /\ SetRun(r, [errors |-> run[r].errors + 1, pc |-> "done", errorMsg |-> NullError])
    /\ UNCHANGED <<responses, storage, now, replace, page, replaced, dashboard, T1_ITEMS, rejected, http>>

processMediumHighConditions_error(r, db) ==
    /\ run[r].pc = "mh_error"
    /\ participants' = MarkError(Current(r).prolific_pid, run[r].errorMsg, db)
    /\ SetRun(r, [errors |-> run[r].errors + 1] @@ NextIteration(r))
    /\ UNCHANGED <<responses, storage, now, replace, page, replaced, dashboard, T1_ITEMS, rejected, http>>

-----------------------------------------------------------------------------
\* POST /api/admin/qc/approve and POST /api/admin/qc/needs-fix

\* The update of a QC action also sets audio_status to generated.
QcFields_generated(status, notes) ==
    [qc_status |-> status, qc_checked_at |-> now, qc_notes |-> OrNull(notes),
     audio_status |-> "generated"]

\* .update({qc_status, qc_checked_at: new Date().toISOString(), qc_notes: qc_notes || null})
QcFields(status, notes) ==
    [qc_status |-> status, qc_checked_at |-> now, qc_notes |-> OrNull(notes)]

\* The status and the error of the response of approve and of needs-fix
QcResponse(pid, db) ==
    IF pid = NoPid
    THEN [status |-> 400, error |-> "Missing prolific_pid"]
    ELSE IF db = "fail"
    THEN [status |-> 500, error |-> "record store error"]
    ELSE [status |-> 200, error |-> ""]

approve(pid, notes, db) ==
    /\ IF QcResponse(pid, db).status = 400
       THEN /\ Reject("/api/admin/qc/approve", QcResponse(pid, db).error)
            /\ UNCHANGED participants
       ELSE /\ participants' = IF QcResponse(pid, db).status = 200
                               THEN UpdateRow(pid, QcFields("approved", notes))
                               ELSE participants
            /\ UNCHANGED rejected
    /\ UNCHANGED <<responses, storage, now, run, replace, page, replaced, dashboard, T1_ITEMS, http>>

needs_fix(pid, notes, db) ==
    /\ IF QcResponse(pid, db).status = 400
       THEN /\ Reject("/api/admin/qc/needs-fix", QcResponse(pid, db).error)
            /\ UNCHANGED participants
       ELSE /\ participants' = IF QcResponse(pid, db).status = 200
                               THEN UpdateRow(pid, QcFields("needs_fix", notes))
                               ELSE participants
            /\ UNCHANGED rejected
    /\ UNCHANGED <<responses, storage, now, run, replace, page, replaced, dashboard, T1_ITEMS, http>>

-----------------------------------------------------------------------------
\* POST /api/admin/qc/replace-audio: upload, read of the counter, update

SetReplace(q, rec) == replace' = [replace EXCEPT ![q] = rec]

\* storage.upload(`${prolificPid}.mp3`, buffer, {upsert: true}); 500 on error
\* The error of the validation ("" when the form is accepted). file: the
\* form has a file
ReplaceValidation(pid, file) ==
    IF pid = NoPid THEN "Missing prolific_pid"
    ELSE IF ~file THEN "Missing file"
    ELSE ""

replace_audio_upload(q, pid, file, notes, up) ==
    /\ replace[q].pc = "idle"
    /\ IF ReplaceValidation(pid, file) # ""
       THEN /\ Reject("/api/admin/qc/replace-audio", ReplaceValidation(pid, file))
            /\ UNCHANGED <<storage, replace>>
       ELSE /\ replaced[pid] < MaxReplaced
            /\ storage' = IF up = "ok" THEN storage \cup {audioPath(pid)} ELSE storage
            /\ replace' = IF up = "ok"
                          THEN [replace EXCEPT ![q] =
                                  [pc |-> "read", prolificPid |-> pid, qcNotes |-> notes,
                                   currentCount |-> 0]]
                          ELSE replace
            /\ UNCHANGED rejected
    /\ UNCHANGED <<participants, responses, now, run, page, replaced, dashboard, T1_ITEMS, http>>

\* currentData?.qc_replaced_count || 0
currentCount(pid, db) ==
    IF db = "ok" /\ Exists(pid) THEN participants[pid].qc_replaced_count ELSE 0

replace_audio_read(q, db) ==
    /\ replace[q].pc = "read"
    /\ SetReplace(q, [replace[q] EXCEPT !.pc = "update",
                                        !.currentCount = currentCount(replace[q].prolificPid, db)])
    /\ UNCHANGED <<participants, responses, storage, now, run, page, replaced, dashboard, T1_ITEMS, rejected, http>>

\* .update({audio_status: 'generated', audio_path, audio_generated_at, audio_error: null,
\*          qc_status: 'pending', qc_checked_at, qc_notes, qc_replaced_count: currentCount + 1})
ReplaceFields(pid, notes, count) ==
    GeneratedFields(audioPath(pid)) @@ QcFields("pending", notes)
        @@ [qc_replaced_count |-> count + 1]

replace_audio_update(q, db) ==
    /\ replace[q].pc = "update"
    /\ participants' =
          IF db = "ok"
          THEN UpdateRow(replace[q].prolificPid,
                         ReplaceFields(replace[q].prolificPid, replace[q].qcNotes,
                                       replace[q].currentCount))
          ELSE participants
    /\ replaced' = IF db = "ok" THEN [replaced EXCEPT ![replace[q].prolificPid] = @ + 1]
                                ELSE replaced
    /\ SetReplace(q, ReplaceIdle)
    /\ UNCHANGED <<responses, storage, now, run, page, dashboard, T1_ITEMS, rejected, http>>

-----------------------------------------------------------------------------
\* GET /api/admin/qc/list

\* The select without the filter on qc_status.
QcSelection_anyQc ==
    {p \in DOMAIN participants :
        /\ participants[p].condition = "high"
        /\ participants[p].audio_status = "generated"}

\* .eq('condition', 'high').eq('audio_status', 'generated')
\* .in('qc_status', ['pending', 'needs_fix'])
QcSelection ==
    {p \in DOMAIN participants :
        /\ participants[p].condition = "high"
        /\ participants[p].audio_status = "generated"
        /\ participants[p].qc_status \in {"pending", "needs_fix"}}

\* .order('audio_generated_at', {ascending: false}): rows with equal stamps
\* come in any order.
QcOrders ==
    {s \in [1..Cardinality(QcSelection) -> QcSelection] :
        /\ \A a, b \in DOMAIN s : a # b => s[a] # s[b]
        /\ \A a, b \in DOMAIN s :
              a < b => participants[s[a]].audio_generated_at
                         >= participants[s[b]].audio_generated_at}

\* The columns selected, and audio_url: createSignedUrl(p.audio_path, 600)
\* when there is a path, null when there is none or no URL is handed back.
ParticipantQC(p, signed) ==
    [prolific_pid       |-> p,
     condition          |-> participants[p].condition,
     audio_status       |-> participants[p].audio_status,
     audio_path         |-> participants[p].audio_path,
     audio_generated_at |-> participants[p].audio_generated_at,
     qc_status          |-> participants[p].qc_status,
     qc_checked_at      |-> participants[p].qc_checked_at,
     qc_notes           |-> participants[p].qc_notes,
     qc_replaced_count  |-> participants[p].qc_replaced_count,
     audio_url          |-> IF /\ participants[p].audio_path # NullPath
                               /\ p \in signed
                               /\ participants[p].audio_path \in storage
                            THEN "signed:" \o participants[p].audio_path
                            ELSE NullUrl]

\* The listing fails as a whole when the URL of one of its rows cannot be minted.
qc_list_signOrFail(db) ==
    /\ \/ /\ db = "fail"
          /\ dashboard' = [ok |-> FALSE, participants |-> <<>>, error |-> "record store error"]
       \/ /\ db = "ok"
          /\ \E s \in QcOrders, signed \in SUBSET QcSelection :
                dashboard' = IF signed = QcSelection
                             THEN [ok           |-> TRUE,
                                   participants |-> [k \in DOMAIN s |-> ParticipantQC(s[k], signed)],
                                   error        |-> ""]
                             ELSE [ok |-> FALSE, participants |-> <<>>,
                                   error |-> "signed URL error"]
    /\ UNCHANGED <<participants, responses, storage, now, run, replace, page, replaced,
                   T1_ITEMS, rejected, http>>

\* db: the outcome of the select; signed: the rows whose URL the signer hands back
qc_list(db) ==
    /\ \/ /\ db = "fail"
          /\ dashboard' = [ok |-> FALSE, participants |-> <<>>, error |-> "record store error"]
       \/ /\ db = "ok"
          /\ \E s \in QcOrders, signed \in SUBSET QcSelection :
                dashboard' = [ok           |-> TRUE,
                              participants |-> [k \in DOMAIN s |-> ParticipantQC(s[k], signed)],
                              error        |-> ""]
    /\ UNCHANGED <<participants, responses, storage, now, run, replace, page, replaced,
                   T1_ITEMS, rejected, http>>

-----------------------------------------------------------------------------
\* POST /api/t1/submit: insert into responses_t1, then stamp t1_completed_at

\* The handler stamps t1_completed_at whether or not the insert succeeded.
T1SubmitWrites_stampAlways(pid, ins, upd) ==
    /\ responses' = IF ins = "ok" THEN [responses EXCEPT ![pid] = @ + 1] ELSE responses
    /\ participants' = IF upd = "ok" THEN UpdateRow(pid, [t1_completed_at |-> now])
                                     ELSE participants

\* The two writes of the handler
T1SubmitWrites(pid, ins, upd) ==
    \/ /\ ins = "fail"
       /\ UNCHANGED <<responses, participants>>
    \/ /\ ins = "ok"
       /\ responses' = [responses EXCEPT ![pid] = @ + 1]
       /\ participants' = IF upd = "ok" THEN UpdateRow(pid, [t1_completed_at |-> now])
                                        ELSE participants

\* The body of the response: {ok: true}, or {ok: false, error}
T1SubmitResponse(ins, upd) ==
    IF ins = "ok" /\ upd = "ok" THEN "ok" ELSE "record store error"

T1Submit(pid, ins, upd) ==
    /\ IF pid = NoPid
       THEN /\ Reject("/api/t1/submit", "Missing prolific_pid")
            /\ UNCHANGED <<responses, participants>>
       ELSE /\ responses[pid] < MaxResponses
            /\ T1SubmitWrites(pid, ins, upd)
            /\ UNCHANGED rejected
    /\ UNCHANGED <<storage, now, run, replace, page, replaced, dashboard, T1_ITEMS, http>>

-----------------------------------------------------------------------------------------------------------------------------------------------------
\* GET /api/t1/get-audio

\* storage.createSignedUrl(path, 600)
signedUrl(path) == "signed:" \o path

\* GET without the PGRST116 branch: "no rows" is answered like any other
\* error of the record store, with the store's message.
GET_noRowsIsError(prolificPid, db, sign) ==
    IF prolificPid = NoPid
    THEN Response(FALSE, "undefined", "undefined", NullUrl, "Missing prolific_pid")
    ELSE IF db = "fail"
    THEN Response(FALSE, "undefined", "undefined", NullUrl, "record store error")
    ELSE IF ~Exists(prolificPid)
    THEN Response(FALSE, "undefined", "undefined", NullUrl,
                  "JSON object requested, multiple (or no) rows returned")
    ELSE Response(TRUE, "true", participants[prolificPid].audio_status, NullUrl, "")

\* db: the outcome of the select ... .single(); sign: that of createSignedUrl
GET(prolificPid, db, sign) ==
    IF prolificPid = NoPid
    THEN Response(FALSE, "undefined", "undefined", NullUrl, "Missing prolific_pid")
    ELSE IF db = "fail"
    THEN Response(FALSE, "undefined", "undefined", NullUrl, "record store error")
    ELSE IF ~Exists(prolificPid)
    THEN Response(TRUE, "false", "not_found", NullUrl, "")
    ELSE LET participant == participants[prolificPid]
             audioUrl ==
                 IF /\ participant.audio_status = "generated"
                    /\ participant.audio_path # NullPath
                    /\ sign = "ok"
                    /\ participant.audio_path \in storage
                 THEN signedUrl(participant.audio_path)
                 ELSE NullUrl
         IN  Response(TRUE, "true", participant.audio_status, audioUrl, "")

-----------------------------------------------------------------------------
\* T1 page: the effect run on mount (fetchAudio)

\* A visit (or a reload) of /t1?PROLIFIC_PID=pid
T1Content(v, pid) ==
    /\ page' = [page EXCEPT ![v] = Mounted(pid)]
    /\ UNCHANGED <<participants, responses, storage, now, run, replace, replaced, dashboard, T1_ITEMS, rejected, http>>

\* The request of fetchAudio is served: the response is on its way to the page.
fetchAudio_request(v, db, sign) ==
    /\ page[v].step = "loading"
    /\ page[v].prolificPid # NoPid
    /\ page[v].data = NoData
    /\ page' = [page EXCEPT ![v].data = GET(page[v].prolificPid, db, sign)]
    /\ UNCHANGED <<participants, responses, storage, now, run, replace, replaced, dashboard, T1_ITEMS, rejected, http>>

Failed(v, msg) == [page[v] EXCEPT !.step = "error", !.errorMessage = msg]

\* The branches of fetchAudio on the parsed response
OnResponse(v, data) ==
    IF ~data.ok
    THEN Failed(v, IF data.error # "" THEN data.error ELSE "Failed to fetch audio")
    ELSE IF data.found = "false"
    THEN Failed(v, "Participant not found. Please complete part 1 first.")
    ELSE IF data.status = "pending"
    THEN Failed(v, "Your audio is still being generated. Please try again later.")
    ELSE IF data.status = "qc_pending"
    THEN Failed(v, "Your audio is under review. Please try again later.")
    ELSE IF data.status # "ready" \/ data.audio_url = NullUrl
    THEN Failed(v, "Your audio is not available.")
    ELSE [page[v] EXCEPT !.step = "audio", !.audioUrl = data.audio_url]

\* The outcome of the request is applied whatever step the page is in.
fetchAudio_late(v, net) ==
    /\ page[v].prolificPid # NoPid
    /\ \/ /\ net = "fail"
          /\ page' = [page EXCEPT ![v] = Failed(v, "Failed to load audio")]
       \/ /\ net = "ok"
          /\ page[v].data # NoData
          /\ page' = [page EXCEPT ![v] = OnResponse(v, page[v].data)]
    /\ UNCHANGED <<participants, responses, storage, now, run, replace, replaced, dashboard,
                   T1_ITEMS, rejected, http>>

\* The rest of the effect. net: whether fetch() and response.json() return or throw.
fetchAudio(v, net) ==
    /\ page[v].step = "loading"
    /\ \/ /\ page[v].prolificPid = NoPid
          /\ page' = [page EXCEPT ![v] = Failed(v, "Missing PROLIFIC_PID")]
       \/ /\ page[v].prolificPid # NoPid
          /\ net = "fail"
          /\ page' = [page EXCEPT ![v] = Failed(v, "Failed to load audio")]
       \/ /\ page[v].prolificPid # NoPid
          /\ net = "ok"
          /\ page[v].data # NoData
          /\ page' = [page EXCEPT ![v] = OnResponse(v, page[v].data)]
    /\ UNCHANGED <<participants, responses, storage, now, run, replace, replaced, dashboard, T1_ITEMS, rejected, http>>

-----------------------------------------------------------------------------
\* T1 page: audio step, survey steps and submission

\* The response to fetchAudio's request, from any server
fetchAudio_response(v, data) ==
    /\ page[v].step = "loading"
    /\ page[v].prolificPid # NoPid
    /\ page[v].data = NoData
    /\ page' = [page EXCEPT ![v].data = data]
    /\ UNCHANGED <<participants, responses, storage, now, run, replace, replaced, dashboard,
                   T1_ITEMS, rejected, http>>

HasActive(scale) == \E j \in DOMAIN scale.items : scale.items[j].active

IsActive(item) == item.active

\* Every scale of the configuration is a survey step.
activeScales_all == T1_ITEMS

\* T1_ITEMS.scales.filter(scale => scale.items.some(item => item.active))
activeScales == SelectSeq(T1_ITEMS, HasActive)

totalSteps == Len(activeScales) + 1

\* The survey step has rendered: activeScales[currentScaleIndex] is a scale.
SurveyShown(v) ==
    /\ page[v].step = "survey"
    /\ page[v].currentScaleIndex < Len(activeScales)

\* const currentScale = activeScales[currentScaleIndex] (the index counts from 0)
currentScale(v) == activeScales[page[v].currentScaleIndex + 1]

\* The check passes as soon as one active item of the scale is answered.
isCurrentScaleComplete_some(v) ==
    IF page[v].step # "survey"
    THEN FALSE
    ELSE LET activeItems == SelectSeq(currentScale(v).items, IsActive)
         IN  \E j \in DOMAIN activeItems :
                 activeItems[j].item_id \in DOMAIN page[v].answers

isCurrentScaleComplete(v) ==
    IF page[v].step # "survey"
    THEN FALSE
    ELSE LET activeItems == SelectSeq(currentScale(v).items, IsActive)
         IN  \A j \in DOMAIN activeItems :
                 activeItems[j].item_id \in DOMAIN page[v].answers

\* The gate follows the playback position: a position below 2 closes it again.
handleTimeUpdate_relock(v, t) ==
    /\ page[v].step = "audio"
    /\ page' = [page EXCEPT ![v].canContinueAudio = t >= 2]
    /\ UNCHANGED <<participants, responses, storage, now, run, replace, replaced, dashboard,
                   T1_ITEMS, rejected, http>>

\* onTimeUpdate of the audio element, at playback position t
handleTimeUpdate(v, t) ==
    /\ page[v].step = "audio"
    /\ page' = [page EXCEPT ![v].canContinueAudio = page[v].canContinueAudio \/ t >= 2]
    /\ UNCHANGED <<participants, responses, storage, now, run, replace, replaced, dashboard,
                   T1_ITEMS, rejected, http>>

\* onEnded of the audio element
handleAudioEnded(v) ==
    /\ page[v].step = "audio"
    /\ page' = [page EXCEPT ![v].canContinueAudio = TRUE]
    /\ UNCHANGED <<participants, responses, storage, now, run, replace, replaced, dashboard,
                   T1_ITEMS, rejected, http>>

\* onChange of the radio button `value` of item itemId, one of the active
\* items of the scale shown
handleAnswerChange(v, itemId, value) ==
    /\ SurveyShown(v)
    /\ \E j \in DOMAIN currentScale(v).items :
          /\ currentScale(v).items[j].active
          /\ currentScale(v).items[j].item_id = itemId
    /\ page' = [page EXCEPT ![v].answers =
                    [i \in DOMAIN page[v].answers \cup {itemId} |->
                        IF i = itemId THEN value ELSE page[v].answers[i]]]
    /\ UNCHANGED <<participants, responses, storage, now, run, replace, replaced, dashboard,
                   T1_ITEMS, rejected, http>>

\* The Continue button of the audio step is enabled from the start.
handleContinue_noGate(v) ==
    /\ \/ /\ page[v].step = "audio"
          /\ page' = [page EXCEPT ![v].step = "survey"]
       \/ /\ SurveyShown(v)
          /\ isCurrentScaleComplete(v)
          /\ page' = IF page[v].currentScaleIndex < Len(activeScales) - 1
                     THEN [page EXCEPT ![v].currentScaleIndex = @ + 1]
                     ELSE [page EXCEPT ![v].step = "submitting"]
    /\ UNCHANGED <<participants, responses, storage, now, run, replace, replaced, dashboard,
                   T1_ITEMS, rejected, http>>

\* onClick of the Continue / Submit button, which is disabled while
\* !canContinueAudio (audio step), respectively !isCurrentScaleComplete()
handleContinue(v) ==
    /\ \/ /\ page[v].step = "audio"
          /\ page[v].canContinueAudio
          /\ page' = [page EXCEPT ![v].step = "survey"]
       \/ /\ SurveyShown(v)
          /\ isCurrentScaleComplete(v)
          /\ page' = IF page[v].currentScaleIndex < Len(activeScales) - 1
                     THEN [page EXCEPT ![v].currentScaleIndex = @ + 1]
                     ELSE [page EXCEPT ![v].step = "submitting"]
    /\ UNCHANGED <<participants, responses, storage, now, run, replace, replaced, dashboard,
                   T1_ITEMS, rejected, http>>

\* handleSubmit: the POST to /api/t1/submit is served
handleSubmit_request(v, ins, upd) ==
    /\ page[v].step = "submitting"
    /\ page[v].submitData = "<no response>"
    /\ responses[page[v].prolificPid] < MaxResponses
    /\ T1SubmitWrites(page[v].prolificPid, ins, upd)
    /\ page' = [page EXCEPT ![v].submitData = T1SubmitResponse(ins, upd)]
    /\ UNCHANGED <<storage, now, run, replace, replaced, dashboard, T1_ITEMS, rejected, http>>

\* handleSubmit after the await. net: whether fetch() and response.json()
\* return or throw.
handleSubmit(v, net) ==
    /\ page[v].step = "submitting"
    /\ \/ /\ net = "fail"
          /\ page' = [page EXCEPT ![v] = Failed(v, "Failed to submit responses")]
       \/ /\ net = "ok"
          /\ page[v].submitData # "<no response>"
          /\ page' = [page EXCEPT ![v] =
                         IF page[v].submitData = "ok"
                         THEN [page[v] EXCEPT !.step = "complete"]
                         ELSE Failed(v, page[v].submitData)]
    /\ UNCHANGED <<participants, responses, storage, now, run, replace, replaced, dashboard,
                   T1_ITEMS, rejected, http>>

-----------------------------------------------------------------------------
\* middleware.ts: Basic Auth for the admin routes

\* request.nextUrl.pathname, by its segments: /admin/qc is <<"admin", "qc">>
Pathnames ==
    {<<"admin", "qc">>,
     <<"api", "admin", "qc", "list">>,
     <<"api", "admin", "qc", "approve">>,
     <<"api", "admin", "qc", "needs-fix">>,
     <<"api", "admin", "qc", "replace-audio">>,
     <<"t1">>}

\* The text a client encodes into a Basic header, by its pieces: ":" is a
\* colon, every other piece is free of colons.
Credentials ==
    {<<"admin", ":", "pw">>,
     <<"admin", ":", "pw", ":", "x">>,
     <<"admin", ":", "x">>,
     <<"user", ":", "pw">>,
     <<"admin">>}

\* The authorization header of a request: none, another scheme, `Basic `
\* followed by the base64 of some credentials, or `Basic ` followed by text
\* that is not base64.
Headers ==
    {NoHeader, [scheme |-> "Bearer", base64 |-> TRUE, credentials |-> <<>>],
     [scheme |-> "Basic", base64 |-> FALSE, credentials |-> <<>>]}
        \cup {[scheme |-> "Basic", base64 |-> TRUE, credentials |-> c] : c \in Credentials}

\* process.env.ADMIN_PASSWORD: not set, or a password
AdminPasswords == {"<undefined>", "pw", "pw:x"}

\* The string a text stands for
RECURSIVE Join(_)
Join(text) == IF text = <<>> THEN "" ELSE Head(text) \o Join(Tail(text))

\* String.prototype.split(':'): the strings between the colons
RECURSIVE split(_)
split(text) ==
    IF \A k \in DOMAIN text : text[k] # ":"
    THEN <<Join(text)>>
    ELSE LET k == CHOOSE k \in DOMAIN text :
                     text[k] = ":" /\ \A j \in 1..(k - 1) : text[j] # ":"
         IN  <<Join(SubSeq(text, 1, k - 1))>> \o split(SubSeq(text, k + 1, Len(text)))

\* new NextResponse(body, {status})
NextResponse(status, body) == [next |-> FALSE, status |-> status, body |-> body]

\* NextResponse.next(): the request goes on to the page or the route handler
PassOn == [next |-> TRUE, status |-> 0, body |-> ""]

\* atob() throws on text that is not base64; the exception is not caught
\* and the framework answers 500.
Thrown == NextResponse(500, "<uncaught exception>")

\* middleware(request), with adminPassword the value of process.env.ADMIN_PASSWORD
middleware(pathname, authHeader, adminPassword) ==
    IF ~(Len(pathname) >= 1 /\ pathname[1] = "admin")
    THEN PassOn
    ELSE IF authHeader = NoHeader \/ authHeader.scheme # "Basic"
    THEN NextResponse(401, "Authentication required")
    ELSE IF ~authHeader.base64
    THEN Thrown
    ELSE LET parts    == split(authHeader.credentials)
             username == parts[1]
             password == IF Len(parts) >= 2 THEN parts[2] ELSE "<undefined>"
         IN  IF adminPassword = "<undefined>"
             THEN NextResponse(500, "Server configuration error")
             ELSE IF username # "admin" \/ password # adminPassword
             THEN NextResponse(401, "Invalid credentials")
             ELSE PassOn

\* config.matcher = '/admin/:path*': the paths the framework runs the middleware for
matcher(pathname) == Len(pathname) >= 1 /\ pathname[1] = "admin"

\* The framework receives a request: the middleware runs if the matcher
\* selects the path, and otherwise the request goes on.
request(pathname, authHeader, adminPassword) ==
    /\ http' = [pathname |-> pathname, authorization |-> authHeader,
                ADMIN_PASSWORD |-> adminPassword]
                @@ (IF matcher(pathname)
                    THEN middleware(pathname, authHeader, adminPassword)
                    ELSE PassOn)
    /\ UNCHANGED <<participants, responses, storage, now, run, replace, page, replaced,
                   dashboard, T1_ITEMS, rejected>>

-----------------------------------------------------------------------------
\* Specifications

\* One invocation of the script after another (R = {1}), or overlapping ones.
Script(R) ==
    \/ \E r \in R : main_start(r)
    \/ \E r \in R, o \in Outcomes : processLowCondition_list(r, o)
    \/ \E r \in R, o \in Outcomes : processLowCondition_generate(r, o)
    \/ \E r \in R, o \in Outcomes : processLowCondition_upload(r, o)
    \/ \E r \in R, o \in Outcomes : processLowCondition_update(r, o)
    \/ \E r \in R, o \in Outcomes : processMediumHighConditions_fetch(r, o)
    \/ \E r \in R, o \in Outcomes : processMediumHighConditions_generate(r, o)
    \/ \E r \in R, o \in Outcomes : processMediumHighConditions_upload(r, o)
    \/ \E r \in R, o \in Outcomes : processMediumHighConditions_update(r, o)
    \/ \E r \in R, o \in Outcomes : processMediumHighConditions_error(r, o)

T0(P) ==
    \E pid \in P, study \in StudyIds, session \in SessionIds, db \in Outcomes :
        T0Submit(pid, study, session, TRUE, db)

Review(P) ==
    \/ \E pid \in P, notes \in NotesIn, db \in Outcomes : approve(pid, notes, db)
    \/ \E pid \in P, notes \in NotesIn, db \in Outcomes : needs_fix(pid, notes, db)

ReplaceAudio(Q, P) ==
    \/ \E q \in Q, pid \in P, notes \in NotesIn, up \in Outcomes :
          replace_audio_upload(q, pid, TRUE, notes, up)
    \/ \E q \in Q, db \in Outcomes : replace_audio_read(q, db)
    \/ \E q \in Q, db \in Outcomes : replace_audio_update(q, db)

T1(P) == \E pid \in P, ins \in Outcomes, upd \in Outcomes : T1Submit(pid, ins, upd)

Delivery(P) ==
    \/ \E v \in Visits, pid \in P \cup {NoPid} : T1Content(v, pid)
    \/ \E v \in Visits, db \in Outcomes, sign \in Outcomes : fetchAudio_request(v, db, sign)
    \/ \E v \in Visits, net \in Outcomes : fetchAudio(v, net)

\* The participant the single-participant specifications follow; "P2" stays
\* an identifier without a row in them.
One == {"P1"}

InitOne == Init /\ DOMAIN participants \subseteq One /\ T1_ITEMS = T1Config

\* Delivery: one participant through T0, the script, QC review and the T1 page.
Next == Tick \/ T0(One) \/ Script({1}) \/ Review(One) \/ Delivery({"P1", "P2"})

Spec == InitOne /\ [][Next]_vars

\* The script alone, re-invoked at will, over a table in which every
\* identifier has a row.
InitBatch == Init /\ DOMAIN participants = PIDs /\ T1_ITEMS = T1Config

NextBatch == Tick \/ Script({1})

SpecBatch == InitBatch /\ [][NextBatch]_vars

\* Two invocations of the script overlapping in time, with T0 submissions and
\* replace-audio requests for the same participant.
NextRace == T0(One) \/ Script(Runs) \/ ReplaceAudio({1}, One)

SpecRace == InitOne /\ [][NextRace]_vars

\* QC review of two participants, the first one of the high condition: the
\* list, approvals without notes, needs-fix marks with a note, and
\* replace-audio requests made one after the other.
Two == {"P1", "P2"}

QcList == \E db \in Outcomes : qc_list(db)

QcReview ==
    \/ \E pid \in Two, db \in Outcomes : approve(pid, NullNotes, db)
    \/ \E pid \in Two, db \in Outcomes : needs_fix(pid, "note", db)

QcReplace ==
    \/ \E pid \in Two, up \in Outcomes : replace_audio_upload(1, pid, TRUE, NullNotes, up)
    \/ \E db \in Outcomes : replace_audio_read(1, db)
    \/ \E db \in Outcomes : replace_audio_update(1, db)

InitQc ==
    /\ Init
    /\ DOMAIN participants = Two
    /\ participants["P1"].condition = "high"
    /\ T1_ITEMS = T1Config

NextQc == Tick \/ QcReview \/ QcReplace \/ QcList

SpecQc == InitQc /\ [][NextQc]_vars

\* The T1 page of one participant, for every configuration of the
\* questionnaire and every answer a server may give to its status request.
Survey ==
    \/ \E v \in Visits, pid \in One \cup {NoPid} : T1Content(v, pid)
    \/ \E v \in Visits, data \in AudioResponses : fetchAudio_response(v, data)
    \/ \E v \in Visits, net \in Outcomes : fetchAudio(v, net)
    \/ \E v \in Visits, t \in 0..MaxPlayTime : handleTimeUpdate(v, t)
    \/ \E v \in Visits : handleAudioEnded(v)
    \/ \E v \in Visits, itemId \in ItemIds, value \in LikertValues :
          handleAnswerChange(v, itemId, value)
    \/ \E v \in Visits : handleContinue(v)
    \/ \E v \in Visits, ins \in Outcomes, upd \in Outcomes : handleSubmit_request(v, ins, upd)
    \/ \E v \in Visits, net \in Outcomes : handleSubmit(v, net)

InitSurvey == Init /\ DOMAIN participants \subseteq One

NextSurvey == Survey

SpecSurvey == InitSurvey /\ [][NextSurvey]_vars

\* The routes called directly, one participant, with requests that lack the
\* identifier, the t0_payload or the file among them.
Requests == One \cup {NoPid}

Api ==
    \/ \E pid \in Requests, study \in StudyIds, session \in SessionIds, payload \in BOOLEAN,
          db \in Outcomes : T0Submit(pid, study, session, payload, db)
    \/ \E pid \in Requests, notes \in NotesIn, db \in Outcomes : approve(pid, notes, db)
    \/ \E pid \in Requests, notes \in NotesIn, db \in Outcomes : needs_fix(pid, notes, db)
    \/ \E pid \in Requests, file \in BOOLEAN, notes \in NotesIn, up \in Outcomes :
          replace_audio_upload(1, pid, file, notes, up)
    \/ \E db \in Outcomes : replace_audio_read(1, db)
    \/ \E db \in Outcomes : replace_audio_update(1, db)
    \/ \E pid \in Requests, ins \in Outcomes, upd \in Outcomes : T1Submit(pid, ins, upd)

NextApi == Tick \/ Api

SpecApi == InitOne /\ [][NextApi]_vars

\* Two replace-audio requests for the same participant overlapping in time.
NextOverlap == Tick \/ ReplaceAudio(ReplaceReqs, One)

SpecOverlap == InitOne /\ [][NextOverlap]_vars

\* The admin area: requests pass the framework and its middleware; a request
\* that is passed on to a QC route is handled by that route.
Routed(pathname) == http.next /\ http.pathname = pathname

Admin ==
    \/ \E pathname \in Pathnames, authHeader \in Headers, adminPassword \in AdminPasswords :
          request(pathname, authHeader, adminPassword)
    \/ /\ Routed(<<"api", "admin", "qc", "list">>)
       /\ \E db \in Outcomes : qc_list(db)
    \/ /\ Routed(<<"api", "admin", "qc", "approve">>)
       /\ \E pid \in One, db \in Outcomes : approve(pid, NullNotes, db)
    \/ /\ Routed(<<"api", "admin", "qc", "needs-fix">>)
       /\ \E pid \in One, db \in Outcomes : needs_fix(pid, "note", db)
    \/ /\ Routed(<<"api", "admin", "qc", "replace-audio">>)
       /\ \E pid \in One, up \in Outcomes : replace_audio_upload(1, pid, TRUE, NullNotes, up)
    \/ \E db \in Outcomes : replace_audio_read(1, db)
    \/ \E db \in Outcomes : replace_audio_update(1, db)

NextAdmin == Admin

SpecAdmin == InitOne /\ [][NextAdmin]_vars

-----------------------------------------------------------------------------
\* Properties of the status query and of the T1 page's loading step

\* The step in which the status query of visit v is answered
GetStep(v) == page[v].data = NoData /\ page'[v].data # NoData

\* Section 4.2: the audio of a row may be served to the participant
Servable(row) ==
    /\ row.audio_status = "generated"
    /\ row.condition # "high" \/ row.qc_status = "approved"

\* C1: for every participant record, the status query followed by the
\* page's loading step reports the audio servable (the page reaches `audio`
\* with a signed URL) if and only if audio_status = generated and
\* (condition # high or qc_status = approved). Stated for the queries the
\* record store and the signer answer.
C1_ServableIff ==
    [][\A v \in Visits :
         LET pid  == page[v].prolificPid
             data == page'[v].data
         IN  (/\ GetStep(v)
              /\ Exists(pid)
              /\ data.ok
              /\ ~(participants[pid].audio_status = "generated" /\ data.audio_url = NullUrl))
             => (/\ OnResponse(v, data).step = "audio"
                 /\ OnResponse(v, data).audioUrl # NullUrl)
                <=> Servable(participants[pid])]_vars

\* The message section 7 gives a row whose audio is not servable
Message(row) ==
    IF row.audio_status = "pending"
    THEN "Your audio is still being generated. Please try again later."
    ELSE IF row.audio_status = "generated"
    THEN "Your audio is under review. Please try again later."
    ELSE "Your audio is not available."

\* C2: a participant whose audio is not ready ends the loading step in
\* `error` with a message of its own per cause: missing identifier, unknown
\* identifier, still generating, under review (high, generated, not
\* approved), unavailable (any other state that is not servable).
C2_MessagePerCause ==
    [][\A v \in Visits :
         LET pid  == page[v].prolificPid
             data == page'[v].data
             msg  == OnResponse(v, data).errorMessage
         IN  /\ (page[v].step = "loading" /\ page'[v].step # "loading" /\ pid = NoPid)
                => page'[v].step = "error" /\ page'[v].errorMessage = "Missing PROLIFIC_PID"
             /\ (GetStep(v) /\ data.ok /\ ~Exists(pid))
                => msg = "Participant not found. Please complete part 1 first."
             /\ (GetStep(v) /\ data.ok /\ Exists(pid) /\ ~Servable(participants[pid]))
                => /\ OnResponse(v, data).step = "error"
                   /\ msg = Message(participants[pid])]_vars

\* C3: for an identifier that has no participant record, the status query
\* answers ok = true, found = false, status = not_found (not the generic
\* failure that carries an error message) unless the record store itself
\* fails, and it changes neither table nor the bucket.
C3_NotFound ==
    [][\A v \in Visits :
         LET pid  == page[v].prolificPid
             data == page'[v].data
         IN  (GetStep(v) /\ ~Exists(pid) /\ data.error # "record store error")
             => /\ data = Response(TRUE, "false", "not_found", NullUrl, "")
                /\ UNCHANGED <<participants, responses, storage>>]_vars

\* A query for an identifier without a row has been answered "not found".
C3_Witness ==
    \E v \in Visits :
        /\ ~Exists(page[v].prolificPid)
        /\ page[v].data.ok
        /\ page[v].data.found = "false"
        /\ page[v].data.status = "not_found"

-----------------------------------------------------------------------------
\* Properties of the generation script

\* A step taken by invocation r
RunStep(r) == run'[r] # run[r]

LowStages == {"low_list", "low_generate", "low_upload", "low_update"}

MhStages == {"mh_generate", "mh_upload", "mh_update", "mh_error"}

\* The rows the select of invocation r returned
FetchedPids(r) == {run[r].participants[k].prolific_pid : k \in 1..Len(run[r].participants)}

\* C4: when the bulk update of the low branch runs, the shared artifact
\* exists, and when it succeeds every row that was low and pending has
\* audio_status = generated, audio_path = low.mp3, a non-null
\* audio_generated_at and audio_error = null; the low count reported is the
\* number of rows so updated.
C4_LowBulkUpdate ==
    [][\A r \in Runs :
         (run[r].pc = "low_update" /\ RunStep(r) /\ run'[r].error = "null")
         => /\ LowPath \in storage
            /\ \A p \in PendingLow :
                  /\ participants'[p].audio_status = "generated"
                  /\ participants'[p].audio_path = LowPath
                  /\ participants'[p].audio_generated_at # NullTime
                  /\ participants'[p].audio_error = NullError
            /\ run'[r].lowUpdated = Cardinality(PendingLow)
            /\ run'[r].lowUpdated =
                  Cardinality({p \in DOMAIN participants : participants'[p] # participants[p]})]_vars

\* One bulk update has moved two rows to the shared path.
C4_Witness ==
    \E r \in Runs :
        /\ run[r].pc = "mh_fetch"
        /\ run[r].error = "null"
        /\ run[r].lowUpdated = 2
        /\ Cardinality({p \in DOMAIN participants :
                           /\ participants[p].audio_status = "generated"
                           /\ participants[p].audio_path = LowPath}) >= 2

\* C5: a run of the low branch leaves every generated low row unchanged, and
\* once the shared artifact exists no run makes a TTS call for it: across any
\* number of runs low.mp3 is generated at most once.
C5_GeneratedOnce ==
    [][\A r \in Runs :
         (run[r].pc \in LowStages /\ RunStep(r))
         => /\ \A p \in DOMAIN participants :
                  (participants[p].condition = "low" /\ participants[p].audio_status = "generated")
                  => participants'[p] = participants[p]
            /\ run[r].pc = "low_generate" => LowPath \notin storage]_vars

\* C6: when a run finishes, every medium/high row it selected is either
\* generated with the path <identifier>.mp3 or in error with a non-empty
\* message; none is still pending.
C6_TerminalOutcome ==
    \A r \in Runs :
        run[r].pc = "done"
        => \A pid \in FetchedPids(r) :
              LET row == participants[pid]
              IN  \/ row.audio_status = "generated" /\ row.audio_path = audioPath(pid)
                  \/ row.audio_status = "error" /\ row.audio_error.len > 0

\* C7: the cap is applied when the rows are fetched, and at the end of the
\* run generated + errors is the number of rows processed, each count being
\* the number of rows the run left in that status.
C7_CapAndCounts ==
    \A r \in Runs :
        /\ Len(run[r].participants) <= BATCH_SIZE
        /\ run[r].pc = "done"
           => /\ run[r].generated + run[r].errors = Len(run[r].participants)
              /\ run[r].generated =
                    Cardinality({pid \in FetchedPids(r) :
                                   participants[pid].audio_status = "generated"})
              /\ run[r].errors =
                    Cardinality({pid \in FetchedPids(r) :
                                   participants[pid].audio_status = "error"})

\* C8: in the medium/high loop a step on one row changes no other row,
\* whatever fails; the rows fetched stay to be processed in order, the loop
\* moving to the next row after each one, and it ends only after the last
\* row, with every row counted.
C8_IsolatedFailure ==
    [][\A r \in Runs :
         (run[r].pc \in MhStages /\ RunStep(r))
         => /\ \A p \in DOMAIN participants :
                  p # Current(r).prolific_pid => participants'[p] = participants[p]
            /\ run'[r].participants = run[r].participants
            /\ \/ /\ run'[r].i = run[r].i
                  /\ run'[r].pc \in MhStages
                  /\ run'[r].generated + run'[r].errors = run[r].i - 1
               \/ /\ run[r].i < Len(run[r].participants)
                  /\ run'[r].i = run[r].i + 1
                  /\ run'[r].pc = "mh_generate"
                  /\ run'[r].generated + run'[r].errors = run[r].i
               \/ /\ run[r].i = Len(run[r].participants)
                  /\ run'[r].pc = "done"
                  /\ run'[r].generated + run'[r].errors = Len(run[r].participants)]_vars

\* The first row of a run failed and the second one has been generated.
C8_Witness ==
    \E r \in Runs :
        /\ run[r].pc = "done"
        /\ Len(run[r].participants) = 2
        /\ run[r].errors = 1
        /\ run[r].generated = 1
        /\ participants[run[r].participants[1].prolific_pid].audio_status = "error"
        /\ participants[run[r].participants[2].prolific_pid].audio_status = "generated"

\* A replace-audio request writes the row of p.
ReplaceStep(p) ==
    \E q \in ReplaceReqs :
        /\ replace[q].pc = "update"
        /\ replace[q].prolificPid = p
        /\ replace'[q].pc = "idle"

\* C9: audio_status changes only from pending to generated or to error,
\* except that replace-audio sets generated: the script never moves a
\* generated row to error or an error row to generated, and nothing moves a
\* row back to pending.
C9_StatusTransitions ==
    [][\A p \in DOMAIN participants :
         LET old == participants[p].audio_status
             new == participants'[p].audio_status
         IN  old # new
             => \/ old = "pending" /\ new \in {"generated", "error"}
                \/ new = "generated" /\ ReplaceStep(p)]_vars

\* C10: when the creation of the shared artifact fails (generation or
\* upload), the low branch writes no row and stores nothing, reports 0, and
\* the run goes on to the medium/high branch.
C10_LowFailure ==
    [][\A r \in Runs :
         (/\ run[r].pc \in {"low_generate", "low_upload"}
          /\ RunStep(r)
          /\ run'[r].pc \notin {"low_upload", "low_update"})
         => /\ participants' = participants
            /\ storage' = storage
            /\ run'[r].lowUpdated = 0
            /\ run'[r].pc = "mh_fetch"]_vars

\* The creation failed with low rows pending: they are pending still, and
\* the run is at the fetch of the medium/high branch.
C10_Witness ==
    \E r \in Runs :
        /\ run[r].pc = "mh_fetch"
        /\ ~run[r].lowFileExists
        /\ run[r].error = "null"
        /\ run[r].lowUpdated = 0
        /\ PendingLow # {}

-----------------------------------------------------------------------------
\* Invariants of the participant record

\* C11: a row with audio_status = generated has a non-null audio_path, a
\* non-null audio_generated_at and audio_error = null, whichever writer (low
\* bulk update, medium/high update, replace-audio) set the status.
C11_GeneratedComplete ==
    \A p \in DOMAIN participants :
        participants[p].audio_status = "generated"
        => /\ participants[p].audio_path # NullPath
           /\ participants[p].audio_generated_at # NullTime
           /\ participants[p].audio_error = NullError

\* A row that was in error has been set to generated by replace-audio.
C11_Witness ==
    \E p \in DOMAIN participants, r \in Runs :
        /\ participants[p].audio_status = "generated"
        /\ participants[p].audio_path = audioPath(p)
        /\ participants[p].qc_replaced_count > 0
        /\ run[r].pc = "done"
        /\ run[r].errors = 1

\* C12: audio_error is non-null exactly on the rows with audio_status =
\* error, where it is the message of the error caught, cut to at most 500
\* characters, and not empty.
C12_ErrorMessage ==
    \A p \in DOMAIN participants :
        /\ participants[p].audio_error # NullError <=> participants[p].audio_status = "error"
        /\ participants[p].audio_status = "error"
           => /\ participants[p].audio_error.len > 0
              /\ participants[p].audio_error.len <= ERROR_SLICE
              /\ \E e \in TtsErrors \cup UploadErrors :
                    participants[p].audio_error = slice(e, ERROR_SLICE)

\* A message longer than 500 characters has been stored, cut to 500.
C12_Witness ==
    \E p \in DOMAIN participants :
        /\ participants[p].audio_status = "error"
        /\ participants[p].audio_error.len = ERROR_SLICE

\* C13: audio_path is non-null only on rows whose audio_status is generated,
\* under every interleaving of runs of the script and replace-audio requests.
C13_PathOnlyGenerated ==
    \A p \in DOMAIN participants :
        participants[p].audio_path # NullPath => participants[p].audio_status = "generated"

\* C14: every generated low row has the path low.mp3, and two distinct rows
\* of which at least one is medium or high never have the same non-null
\* audio_path, whatever the identifiers are.
C14_PathOwnership ==
    /\ \A p \in DOMAIN participants :
          (participants[p].condition = "low" /\ participants[p].audio_status = "generated")
          => participants[p].audio_path = LowPath
    /\ \A p, q \in DOMAIN participants :
          (/\ p # q
           /\ participants[p].condition \in {"medium", "high"}
           /\ participants[p].audio_path # NullPath
           /\ participants[q].audio_path # NullPath)
          => participants[p].audio_path # participants[q].audio_path

-----------------------------------------------------------------------------
\* Properties of the QC operations

\* C15: every replace-audio request for an existing row that answers
\* {ok: true}, requests coming one after the other, adds exactly 1 to
\* qc_replaced_count (two of them add 2) and leaves qc_status = pending and
\* audio_status = generated.
C15_ReplaceTwice ==
    [][\A p \in DOMAIN participants :
         replaced'[p] = replaced[p] + 1
         => /\ participants'[p].qc_replaced_count = participants[p].qc_replaced_count + 1
            /\ participants'[p].qc_status = "pending"
            /\ participants'[p].audio_status = "generated"]_vars

\* C16: qc_replaced_count of a row is the number of replace-audio requests
\* for its identifier that have answered {ok: true}, also when two requests
\* for the same identifier overlap.
C16_ReplacedCount ==
    \A p \in DOMAIN participants : participants[p].qc_replaced_count = replaced[p]

\* The fields of a row that the QC actions Approve and Mark-needs-fix do not write
NotQc(row) ==
    [f \in DOMAIN row \ {"qc_status", "qc_checked_at", "qc_notes"} |-> row[f]]

\* C17: Approve and Mark-needs-fix, when their update succeeds, set
\* qc_status to approved, respectively needs_fix, stamp qc_checked_at and
\* store the notes (null when absent or empty); every other field of the row
\* and every other row stay as they are. (A step that changes no row is
\* left out: it writes what the row holds already.)
C17_ReviewFrame ==
    [][\A pid \in DOMAIN participants, notes \in NotesIn :
         /\ (participants' # participants /\ approve(pid, notes, "ok"))
            => /\ participants'[pid].qc_status = "approved"
               /\ participants'[pid].qc_checked_at = now
               /\ participants'[pid].qc_notes = (IF notes = "note" THEN "note" ELSE NullNotes)
               /\ NotQc(participants'[pid]) = NotQc(participants[pid])
               /\ \A q \in DOMAIN participants \ {pid} : participants'[q] = participants[q]
         /\ (participants' # participants /\ needs_fix(pid, notes, "ok"))
            => /\ participants'[pid].qc_status = "needs_fix"
               /\ participants'[pid].qc_checked_at = now
               /\ participants'[pid].qc_notes = (IF notes = "note" THEN "note" ELSE NullNotes)
               /\ NotQc(participants'[pid]) = NotQc(participants[pid])
               /\ \A q \in DOMAIN participants \ {pid} : participants'[q] = participants[q]]_vars

\* One row approved without notes and the other marked needs_fix with a note,
\* both with a replaced audio that the marks have left in place.
C17_Witness ==
    \E p, q \in DOMAIN participants :
        /\ participants[p].qc_status = "approved"
        /\ participants[p].qc_notes = NullNotes
        /\ participants[p].audio_status = "generated"
        /\ participants[p].qc_replaced_count = 1
        /\ participants[q].qc_status = "needs_fix"
        /\ participants[q].qc_notes = "note"
        /\ participants[q].audio_path = audioPath(q)
        /\ participants[q].qc_replaced_count = 2

\* C18: the QC actions (the only writers of rows during QC review) change
\* a row only when its condition is high and its audio_status is generated.
C18_QcOnlyHighGenerated ==
    [][\A p \in DOMAIN participants :
         participants'[p] # participants[p]
         => /\ participants[p].condition = "high"
            /\ participants[p].audio_status = "generated"]_vars

\* C19: an answer {ok: true} of the QC list holds exactly the rows with
\* condition = high, audio_status = generated and qc_status pending or
\* needs_fix, each once and as stored, ordered by audio_generated_at
\* descending.
C19_QcList ==
    [][((\E db \in Outcomes : qc_list(db)) /\ dashboard'.ok)
       => LET list == dashboard'.participants
          IN  /\ {list[k].prolific_pid : k \in DOMAIN list}
                    = {p \in DOMAIN participants :
                          /\ participants[p].condition = "high"
                          /\ participants[p].audio_status = "generated"
                          /\ participants[p].qc_status \in {"pending", "needs_fix"}}
              /\ \A a, b \in DOMAIN list :
                    /\ a # b => list[a].prolific_pid # list[b].prolific_pid
                    /\ a < b => list[a].audio_generated_at >= list[b].audio_generated_at
              /\ \A k \in DOMAIN list :
                    LET row == participants[list[k].prolific_pid]
                    IN  /\ list[k].qc_status = row.qc_status
                        /\ list[k].audio_generated_at = row.audio_generated_at
                        /\ list[k].qc_replaced_count = row.qc_replaced_count]_vars

\* The list has answered with two rows generated at different times, the
\* later one first, while the other row had been approved before and came
\* back by a replacement.
C19_Witness ==
    /\ dashboard.ok
    /\ Len(dashboard.participants) = 2
    /\ dashboard.participants[1].audio_generated_at
          > dashboard.participants[2].audio_generated_at
    /\ \E k \in 1..2 : /\ dashboard.participants[k].qc_replaced_count = 2
                        /\ dashboard.participants[k].qc_status = "pending"

-----------------------------------------------------------------------------
\* Properties of the T1 page's survey steps

\* Every active item of the scale shown has an answer.
AllAnswered(v) ==
    \A j \in DOMAIN currentScale(v).items :
        currentScale(v).items[j].active
        => currentScale(v).items[j].item_id \in DOMAIN page[v].answers

\* C20: while scale i is shown, the advance is enabled exactly when every
\* active item of scale i has an answer, and no step moves the page from
\* scale i to scale i+1 or to submitting while one of them has none.
C20_AdvanceGate ==
    /\ [](\A v \in Visits : SurveyShown(v) => (ENABLED handleContinue(v) <=> AllAnswered(v)))
    /\ [][\A v \in Visits :
            (/\ SurveyShown(v)
             /\ page'[v].step \in {"survey", "submitting"}
             /\ \/ page'[v].currentScaleIndex # page[v].currentScaleIndex
                \/ page'[v].step = "submitting")
            => /\ AllAnswered(v)
               /\ \/ /\ page'[v].step = "survey"
                     /\ page'[v].currentScaleIndex = page[v].currentScaleIndex + 1
                  \/ /\ page'[v].step = "submitting"
                     /\ page[v].currentScaleIndex = Len(activeScales) - 1]_vars

\* With every item active, the page has advanced to the second scale with
\* both items of the first one answered, and none of the second one.
C20_Witness ==
    \E v \in Visits :
        /\ T1_ITEMS = T1Config
        /\ page[v].step = "survey"
        /\ page[v].currentScaleIndex = 1
        /\ DOMAIN page[v].answers = {"rel1", "rel2"}

\* The scales of the configuration that have an active item, by position
WithItems == {k \in DOMAIN T1_ITEMS : \E j \in DOMAIN T1_ITEMS[k].items :
                                          T1_ITEMS[k].items[j].active}

\* The position of a scale in the configuration
Position(scale) == CHOOSE k \in DOMAIN T1_ITEMS : T1_ITEMS[k].scale_id = scale.scale_id

\* C21: for every configuration, the survey steps are exactly the scales
\* that have at least one active item, in the order of the configuration;
\* the step count is their number plus one, and the scale a survey step
\* shows is one of them.
C21_ActiveScales ==
    /\ \A a \in DOMAIN activeScales : Position(activeScales[a]) \in WithItems
    /\ \A k \in WithItems : \E a \in DOMAIN activeScales : activeScales[a] = T1_ITEMS[k]
    /\ \A a, b \in DOMAIN activeScales :
          a < b => Position(activeScales[a]) < Position(activeScales[b])
    /\ totalSteps = Cardinality(WithItems) + 1
    /\ \A v \in Visits :
          SurveyShown(v)
          => /\ Position(currentScale(v)) \in WithItems
             /\ Cardinality({k \in WithItems : k < Position(currentScale(v))})
                   = page[v].currentScaleIndex

\* The second scale has no active item: the second survey step shows the third scale.
C21_Witness ==
    \E v \in Visits :
        /\ T1_ITEMS = WithActive({"rel1", "att1"})
        /\ page[v].step = "survey"
        /\ page[v].currentScaleIndex = 1
        /\ currentScale(v).scale_id = "attitude"
        /\ totalSteps = 3

\* The page of visit v has not just been mounted (a reload starts a new visit).
SameVisit(v) == page'[v] # Mounted(page'[v].prolificPid)

\* C22: within a visit, canContinueAudio becomes true only by a time update
\* at position 2 or later or by the ended event, never becomes false again,
\* and the page leaves the audio step, for the first survey step, only when
\* it is true.
C22_AudioLatch ==
    [][\A v \in Visits :
         /\ (~page[v].canContinueAudio /\ page'[v].canContinueAudio)
            => \/ handleAudioEnded(v)
               \/ \E t \in 2..MaxPlayTime : handleTimeUpdate(v, t)
         /\ (page[v].canContinueAudio /\ SameVisit(v)) => page'[v].canContinueAudio
         /\ (page[v].step = "audio" /\ page'[v].step # "audio" /\ SameVisit(v))
            => /\ page[v].canContinueAudio
               /\ page'[v].step = "survey"
               /\ page'[v].currentScaleIndex = 0]_vars

\* The page has left the audio step with the gate open.
C22_Witness ==
    \E v \in Visits :
        /\ page[v].step = "survey"
        /\ page[v].canContinueAudio
        /\ page[v].answers = Mounted(NoPid).answers

\* C23: within a visit no step follows `complete` or `error`; the
\* submitting step ends in complete, on the answer {ok: true}, or in error,
\* and a page in error sends no further submission.
C23_Terminal ==
    [][\A v \in Visits :
         /\ (page[v].step \in {"complete", "error"} /\ SameVisit(v))
            => /\ page'[v].step = page[v].step
               /\ responses' = responses
         /\ (page[v].step = "submitting" /\ page'[v].step # "submitting" /\ SameVisit(v))
            => /\ page'[v].step \in {"complete", "error"}
               /\ page'[v].step = "complete" => page[v].submitData = "ok"]_vars

\* A submission has failed, and the page shows the error.
C23_Witness ==
    \E v \in Visits :
        /\ page[v].step = "error"
        /\ page[v].submitData = "record store error"
        /\ page[v].errorMessage = "record store error"

\* C24: a row with a non-null t1_completed_at has a response row for its
\* identifier, and a step that inserts no response row stamps nothing.
C24_StampAfterInsert ==
    /\ [](\A p \in DOMAIN participants :
            participants[p].t1_completed_at # NullTime => responses[p] >= 1)
    /\ [][\A p \in DOMAIN participants :
            responses'[p] = responses[p]
            => participants'[p].t1_completed_at = participants[p].t1_completed_at]_vars

\* A submission has been stored and stamped.
C24_Witness ==
    \E p \in DOMAIN participants :
        /\ participants[p].t1_completed_at # NullTime
        /\ responses[p] = 1

-----------------------------------------------------------------------------
\* Properties of the routes

\* C25: the end-to-end scenario runs: for P1, low, generated with the path
\* low.mp3, when the status query answers with the signed URL of that path,
\* the page goes to the audio step with that URL.
C25_EndToEnd ==
    [][\A v \in Visits :
         LET pid  == page[v].prolificPid
             data == page'[v].data
         IN  (/\ GetStep(v)
              /\ pid = "P1"
              /\ Exists(pid)
              /\ participants[pid].condition = "low"
              /\ participants[pid].audio_status = "generated"
              /\ participants[pid].audio_path = LowPath
              /\ data.ok
              /\ data.audio_url = signedUrl(LowPath))
             => /\ OnResponse(v, data).step = "audio"
                /\ OnResponse(v, data).audioUrl = signedUrl(LowPath)]_vars

\* The columns the upsert of T0 gives
Upserted == {"study_id_t0", "session_id_t0", "condition", "t0_completed_at"}

\* C26: a T0 submission for an identifier that has a row writes study id,
\* session id, condition and t0_completed_at of that row; its audio, QC and
\* T1 columns and all other rows stay as they are.
C26_ResubmitFrame ==
    [][\A pid \in DOMAIN participants, study \in StudyIds, session \in SessionIds :
         (participants' # participants /\ T0Submit(pid, study, session, TRUE, "ok"))
         => /\ participants'[pid].study_id_t0 = study
            /\ participants'[pid].session_id_t0 = session
            /\ participants'[pid].condition = "low"
            /\ participants'[pid].t0_completed_at = now
            /\ \A f \in DOMAIN participants[pid] \ Upserted :
                  participants'[pid][f] = participants[pid][f]
            /\ \A q \in DOMAIN participants \ {pid} : participants'[q] = participants[q]]_vars

\* A row whose audio was set at time 1 has been resubmitted at time 2 with
\* the audio and the replacement count in place.
C26_Witness ==
    \E p \in DOMAIN participants :
        /\ participants[p].t0_completed_at = 2
        /\ participants[p].audio_generated_at = 1
        /\ participants[p].audio_status = "generated"
        /\ participants[p].qc_replaced_count = 1

\* C27: no operation changes the condition of an existing row.
C27_ConditionImmutable ==
    [][\A p \in DOMAIN participants :
         participants'[p].condition = participants[p].condition]_vars

\* C28: t0_completed_at and t1_completed_at, once non-null, do not change.
C28_StampedOnce ==
    [][\A p \in DOMAIN participants :
         /\ participants[p].t0_completed_at # NullTime
            => participants'[p].t0_completed_at = participants[p].t0_completed_at
         /\ participants[p].t1_completed_at # NullTime
            => participants'[p].t1_completed_at = participants[p].t1_completed_at]_vars

\* The answers with which the routes turn a request down
Rejections ==
    {[route |-> "/api/t0/submit", error |-> "Missing required field: prolific_pid"],
     [route |-> "/api/t0/submit", error |-> "Missing required field: t0_payload"],
     [route |-> "/api/admin/qc/approve", error |-> "Missing prolific_pid"],
     [route |-> "/api/admin/qc/needs-fix", error |-> "Missing prolific_pid"],
     [route |-> "/api/admin/qc/replace-audio", error |-> "Missing prolific_pid"],
     [route |-> "/api/admin/qc/replace-audio", error |-> "Missing file"],
     [route |-> "/api/t1/submit", error |-> "Missing prolific_pid"]}

\* C29: a request that lacks its identifier (T0 submit, status query, T1
\* submit, approve, needs-fix, replace-audio), its t0_payload (T0 submit) or
\* its file (replace-audio) is turned down with an error, and the tables
\* and the bucket stay as they are.  (The tests on rejected'.route and on
\* the changed variables in front of the quantifiers only skip the steps
\* that no request to that route can take.)
C29_Validation ==
    /\ [](\A db \in Outcomes, sign \in Outcomes :
            /\ ~GET(NoPid, db, sign).ok
            /\ GET(NoPid, db, sign).error = "Missing prolific_pid")
    /\ [][/\ rejected' # rejected
             => /\ rejected' \in Rejections
                /\ UNCHANGED <<stores, replace, replaced>>
          /\ (rejected'.route = "/api/t0/submit" \/ participants' # participants)
             => \A pid \in Requests, study \in StudyIds, session \in SessionIds,
                   payload \in BOOLEAN, db \in Outcomes :
                   ((pid = NoPid \/ ~payload) /\ T0Submit(pid, study, session, payload, db))
                   => /\ T0Response(pid, payload, db).status = 400
                      /\ rejected' = [route |-> "/api/t0/submit",
                                       error |-> T0Response(pid, payload, db).error]
                      /\ UNCHANGED stores
          /\ (rejected'.route = "/api/admin/qc/approve" \/ participants' # participants)
             => \A notes \in NotesIn, db \in Outcomes :
                   approve(NoPid, notes, db)
                   => /\ rejected' = [route |-> "/api/admin/qc/approve",
                                       error |-> "Missing prolific_pid"]
                      /\ UNCHANGED stores
          /\ (rejected'.route = "/api/admin/qc/needs-fix" \/ participants' # participants)
             => \A notes \in NotesIn, db \in Outcomes :
                   needs_fix(NoPid, notes, db)
                   => /\ rejected' = [route |-> "/api/admin/qc/needs-fix",
                                       error |-> "Missing prolific_pid"]
                      /\ UNCHANGED stores
          /\ (rejected'.route = "/api/admin/qc/replace-audio"
                 \/ storage' # storage \/ replace' # replace)
             => \A pid \in Requests, file \in BOOLEAN, notes \in NotesIn, up \in Outcomes :
                   ((pid = NoPid \/ ~file) /\ replace_audio_upload(1, pid, file, notes, up))
                   => /\ rejected'.route = "/api/admin/qc/replace-audio"
                      /\ rejected'.error = ReplaceValidation(pid, file)
                      /\ rejected'.error # ""
                      /\ UNCHANGED <<stores, replace>>
          /\ (rejected'.route = "/api/t1/submit"
                 \/ responses' # responses \/ participants' # participants)
             => \A ins \in Outcomes, upd \in Outcomes :
                   T1Submit(NoPid, ins, upd)
                   => /\ rejected' = [route |-> "/api/t1/submit",
                                       error |-> "Missing prolific_pid"]
                      /\ UNCHANGED stores]_vars

\* A replace-audio form without a file has been turned down and nothing is stored.
C29_Witness ==
    /\ rejected = [route |-> "/api/admin/qc/replace-audio", error |-> "Missing file"]
    /\ storage = {}
    /\ \A q \in ReplaceReqs : replace[q].pc = "idle"

\* C30: for an identifier without a row, the status query answers
\* not_found, approve and needs-fix do not answer with plain success, and
\* there is neither a response row nor an audio object for it.
C30_UnknownIdentifier ==
    \A pid \in One \ DOMAIN participants :
        /\ GET(pid, "ok", "ok").status = "not_found"
        /\ QcResponse(pid, "ok").status # 200
        /\ responses[pid] = 0
        /\ audioPath(pid) \notin storage

-----------------------------------------------------------------------------
\* Progress and order of a run of the script

\* C32: every run takes its rows out of pending: the last call of the cycle
\* of a medium/high row (the update after the upload, or the update of the
\* catch block) leaves that row not pending, and the bulk update of the low
\* branch, which runs once the shared artifact exists, leaves no low row
\* pending; so the pending rows get fewer from run to run.
C32_RunDrainsPending ==
    [][\A r \in Runs :
         /\ (run[r].pc \in {"mh_update", "mh_error"} /\ RunStep(r))
            => participants'[Current(r).prolific_pid].audio_status # "pending"
         /\ (run[r].pc = "low_update" /\ RunStep(r))
            => \A p \in DOMAIN participants :
                  participants'[p].condition = "low"
                  => participants'[p].audio_status # "pending"]_vars

\* C34: a run is at one call at a time, and its calls come in the order
\* of the script: the low branch before the fetch of the medium/high
\* branch, then for each row fetched generate, upload, update (or the
\* update of the catch block), the next row only after the last call for
\* the row before it; the only object written in the loop is the one of
\* the current row.
C34_Sequential ==
    [][\A r \in Runs :
         RunStep(r)
         => /\ run'[r].pc = "low_list" => run[r].pc \in {"idle", "done"}
            /\ run'[r].pc \in LowStages \ {"low_list"} => run[r].pc \in LowStages
            /\ run'[r].pc = "mh_fetch" => run[r].pc \in LowStages
            /\ run'[r].pc \in MhStages => run[r].pc \in MhStages \cup {"mh_fetch"}
            /\ run[r].pc \in LowStages => run'[r].pc \in LowStages \cup {"mh_fetch"}
            /\ run'[r].pc = "mh_upload"
                  => run[r].pc = "mh_generate" /\ run'[r].i = run[r].i
            /\ run'[r].pc = "mh_update"
                  => run[r].pc = "mh_upload" /\ run'[r].i = run[r].i
            /\ (run[r].pc \in MhStages /\ run'[r].i # run[r].i)
                  => /\ run[r].pc \in {"mh_update", "mh_error"}
                     /\ run'[r].i = run[r].i + 1
                     /\ run'[r].pc = "mh_generate"
            /\ (run[r].pc \in MhStages /\ storage' # storage)
                  => /\ run[r].pc = "mh_upload"
                     /\ storage' = storage \cup {audioPath(Current(r).prolific_pid)}]_vars

\* The run is at the upload for its second row, the cycle of the first one
\* being over, after a low branch that updated a row.
C34_Witness ==
    \E r \in Runs :
        /\ run[r].pc = "mh_upload"
        /\ run[r].i = 2
        /\ run[r].generated + run[r].errors = 1
        /\ run[r].lowUpdated = 1

-----------------------------------------------------------------------------
\* Properties of replace-audio, the QC list and the status query under review

\* C31: a replace-audio request that has stored its upload and then ends
\* leaves the record updated: generated with the stamp of the request, QC
\* status pending and checked at the time of the request; it does not end
\* with the new audio stored and the record as it was.
C31_ReplaceAllOrNothing ==
    [][\A q \in ReplaceReqs :
         LET p == replace[q].prolificPid
         IN  (/\ replace[q].pc \in {"read", "update"}
              /\ replace'[q].pc = "idle"
              /\ Exists(p))
             => /\ audioPath(p) \in storage
                /\ participants'[p].audio_status = "generated"
                /\ participants'[p].audio_generated_at = now
                /\ participants'[p].qc_status = "pending"
                /\ participants'[p].qc_checked_at = now]_vars

\* C35: when the select of the QC list succeeds, the answer is {ok: true}
\* whichever URLs could be minted; it holds every row selected, and the
\* audio_url of an entry is the signed URL of its audio_path or null, and
\* null when there is no audio_path.
C35_ListDegrades ==
    [][(qc_list("ok") /\ dashboard' # dashboard)
       => LET list == dashboard'.participants
          IN  /\ dashboard'.ok
              /\ {list[k].prolific_pid : k \in DOMAIN list} = QcSelection
              /\ Len(list) = Cardinality(QcSelection)
              /\ \A k \in DOMAIN list :
                    /\ list[k].audio_url \in {NullUrl, signedUrl(list[k].audio_path)}
                    /\ list[k].audio_path = NullPath => list[k].audio_url = NullUrl
                    /\ list[k].audio_path \notin storage => list[k].audio_url = NullUrl]_vars

\* The list has answered with two rows, one with a signed URL and one whose
\* URL could not be minted.
C35_Witness ==
    /\ dashboard.ok
    /\ Len(dashboard.participants) = 2
    /\ \E a, b \in 1..2 :
          /\ dashboard.participants[a].audio_url = NullUrl
          /\ dashboard.participants[a].audio_path # NullPath
          /\ dashboard.participants[b].audio_url # NullUrl

\* C36: for a high row with audio_status = generated and qc_status pending
\* or needs_fix, the status query answers with audio_url = null.
C36_UnapprovedNotDisclosed ==
    \A p \in DOMAIN participants :
        (/\ participants[p].condition = "high"
         /\ participants[p].audio_status = "generated"
         /\ participants[p].qc_status \in {"pending", "needs_fix"})
        => \A db \in Outcomes, sign \in Outcomes : GET(p, db, sign).audio_url = NullUrl

\* C37: a step that stores new audio at the path of a high row whose
\* qc_status is approved ends the approval in that same step.
C37_ApprovalCoversBytes ==
    [][\A q \in ReplaceReqs :
         LET p == replace'[q].prolificPid
         IN  (/\ replace[q].pc = "idle"
              /\ replace'[q].pc = "read"
              /\ Exists(p)
              /\ participants[p].condition = "high"
              /\ participants[p].qc_status = "approved")
             => participants'[p].qc_status # "approved"]_vars

-----------------------------------------------------------------------------
\* Invariants of the T1 page

\* The active items of the active scales
ActiveItems ==
    UNION {{activeScales[k].items[j].item_id :
               j \in {j \in DOMAIN activeScales[k].items : activeScales[k].items[j].active}} :
           k \in DOMAIN activeScales}

\* C39: while the T1 page is in submitting or complete, its answers hold an
\* integer from 1 to 7 for every active item of every active scale, and the
\* audio gate of the visit has been opened.
C39_SubmittedComplete ==
    \A v \in Visits :
        page[v].step \in {"submitting", "complete"}
        => /\ ActiveItems \subseteq DOMAIN page[v].answers
           /\ \A i \in DOMAIN page[v].answers : page[v].answers[i] \in 1..7
           /\ page[v].canContinueAudio
           /\ ActiveItems # {}

\* The page is complete in a configuration with an inactive item, an
\* answer for each of the three active ones.
C39_Witness ==
    \E v \in Visits :
        /\ page[v].step = "complete"
        /\ T1_ITEMS = WithActive({"rel2", "int1", "att1"})
        /\ DOMAIN page[v].answers = {"rel2", "int1", "att1"}

\* C40: in the survey step the index of the current scale is that of an
\* active scale, 0 <= currentScaleIndex < activeScales.length, in every
\* configuration; within a visit it changes only by going up by 1.
C40_ScaleIndex ==
    /\ [](\A v \in Visits :
            page[v].step = "survey"
            => /\ 0 <= page[v].currentScaleIndex
               /\ page[v].currentScaleIndex < Len(activeScales))
    /\ [][\A v \in Visits :
            (SameVisit(v) /\ page'[v].currentScaleIndex # page[v].currentScaleIndex)
            => page'[v].currentScaleIndex = page[v].currentScaleIndex + 1]_vars

-----------------------------------------------------------------------------
\* Properties of the admin area

\* The user-id and the password of Basic credentials: the text in front of
\* the first colon, and all of the text behind it.
HasColon(c) == \E k \in DOMAIN c : c[k] = ":"

FirstColon(c) == CHOOSE k \in DOMAIN c : c[k] = ":" /\ \A j \in 1..(k - 1) : c[j] # ":"

UserId(c) == Join(SubSeq(c, 1, FirstColon(c) - 1))

Password(c) == Join(SubSeq(c, FirstColon(c) + 1, Len(c)))

\* The header carries the user admin and the configured password.
Authorized(authHeader, adminPassword) ==
    /\ authHeader.scheme = "Basic"
    /\ authHeader.base64
    /\ HasColon(authHeader.credentials)
    /\ adminPassword # "<undefined>"
    /\ UserId(authHeader.credentials) = "admin"
    /\ Password(authHeader.credentials) = adminPassword

\* C33: a request to a path under /admin is passed on exactly if its Basic
\* header carries the user admin and the configured password; without a
\* Basic header, and with a Basic header of other credentials, the answer is
\* 401; with ADMIN_PASSWORD not set a request with Basic credentials gets
\* 500, and no request is passed on.
C33_AdminGate ==
    (Len(http.pathname) >= 1 /\ http.pathname[1] = "admin")
    => /\ http.next <=> Authorized(http.authorization, http.ADMIN_PASSWORD)
       /\ http.authorization.scheme # "Basic" => http.status = 401
       /\ http.ADMIN_PASSWORD = "<undefined>" => ~http.next
       /\ (http.ADMIN_PASSWORD = "<undefined>" /\ http.authorization.scheme = "Basic")
             => http.status = 500
       /\ (/\ http.ADMIN_PASSWORD # "<undefined>"
           /\ http.authorization.scheme = "Basic"
           /\ http.authorization.base64
           /\ ~http.next)
             => http.status = 401

\* C38: the list is answered, and a record or an audio object is written by
\* approve, needs-fix or replace-audio, only for a request whose Basic
\* header carries the user admin and the configured password.
C38_QcBehindGate ==
    [][((participants' # participants /\ replace' = replace)
          \/ storage' # storage
          \/ dashboard' # dashboard)
       => Authorized(http.authorization, http.ADMIN_PASSWORD)]_vars

====
